---- MODULE Spec2Model ----
(***************************************************************************)
(* Multisend batch orchestrator of the Foundry Deployer dApp.              *)
(*                                                                         *)
(* The model covers the Multisender component (recipient list, Send        *)
(* handler, the sendMutation batch run), the wallet provider it talks to,  *)
(* the REST routes /api/multisend and the in-memory record store.          *)
(*                                                                         *)
(* Strings that the code inspects character by character (addresses,       *)
(* amounts) are sequences of one-character strings.  Opaque strings        *)
(* (status, token type, error messages) are TLA+ strings.  A JavaScript    *)
(* object is a function from its keys to its values: an absent key is an   *)
(* undefined property.  null is the string "null".                         *)
(***************************************************************************)
EXTENDS Integers, Sequences, FiniteSets, TLC

(***************************************************************************)
(* Bounds of the model.                                                    *)
(***************************************************************************)
\* number of activations of the Send handler that are followed
MaxRuns == 2
\* longest recipient list the address book is filled to
MaxRecipients == 2
\* number of changes the user makes to the recipient list and the token selection
MaxEdits == 3
\* number of wallet events (account switch, chain switch) the user causes
MaxWalletEvents == 1
\* number of store requests that the transport lets fail
MaxApiFailures == 2
\* number of contracts that are deployed
MaxDeployments == 2

(***************************************************************************)
(* Strings.                                                                *)
(***************************************************************************)
Repeat(c, n) == [k \in 1..n |-> c]

\* String.prototype.startsWith("0x")
StartsWith0x(s) == Len(s) >= 2 /\ s[1] = "0" /\ s[2] = "x"

LowerChar(c) ==
  CASE c = "A" -> "a" [] c = "B" -> "b" [] c = "C" -> "c"
    [] c = "D" -> "d" [] c = "E" -> "e" [] c = "F" -> "f"
    [] c = "X" -> "x" [] c = "Z" -> "z"
    [] OTHER -> c

\* String.prototype.toLowerCase()
toLowerCase(s) == [k \in 1..Len(s) |-> LowerChar(s[k])]

Digits == {"0", "1", "2", "3", "4", "5", "6", "7", "8", "9"}

DigitVal(c) ==
  CASE c = "0" -> 0 [] c = "1" -> 1 [] c = "2" -> 2 [] c = "3" -> 3
    [] c = "4" -> 4 [] c = "5" -> 5 [] c = "6" -> 6 [] c = "7" -> 7
    [] c = "8" -> 8 [] c = "9" -> 9

\* length of the longest prefix of s made of digits
RECURSIVE DigitPrefixLen(_)
DigitPrefixLen(s) ==
  IF s = <<>> \/ Head(s) \notin Digits THEN 0 ELSE 1 + DigitPrefixLen(Tail(s))

\* value of a digit string read as a decimal integer
RECURSIVE DigitsValue(_)
DigitsValue(s) ==
  IF s = <<>> THEN 0
  ELSE DigitsValue(SubSeq(s, 1, Len(s) - 1)) * 10 + DigitVal(s[Len(s)])

\* leading white space is skipped by parseFloat
RECURSIVE TrimStart(_)
TrimStart(s) ==
  IF s # <<>> /\ Head(s) = " " THEN TrimStart(Tail(s)) ELSE s

Whitespace == {" ", "\t", "\r", "\n"}

\* String.prototype.trim()
RECURSIVE Trim(_)
Trim(s) ==
  IF s = <<>> THEN s
  ELSE IF Head(s) \in Whitespace THEN Trim(Tail(s))
  ELSE IF s[Len(s)] \in Whitespace THEN Trim(SubSeq(s, 1, Len(s) - 1))
  ELSE s

\* String.prototype.split(sep) for a one-character separator
RECURSIVE Split(_, _)
Split(s, sep) ==
  IF \A k \in 1..Len(s) : s[k] # sep THEN <<s>>
  ELSE LET k == CHOOSE j \in 1..Len(s) :
                  s[j] = sep /\ \A h \in 1..(j - 1) : s[h] # sep
       IN  <<SubSeq(s, 1, k - 1)>> \o Split(SubSeq(s, k + 1, Len(s)), sep)

\* A JavaScript number: NaN, or a decimal value kept in thousandths.
NaN == [nan |-> TRUE, milli |-> 0]
Num(m) == [nan |-> FALSE, milli |-> m]
isNaN(v) == v.nan
NumAdd(a, b) == IF a.nan \/ b.nan THEN NaN ELSE Num(a.milli + b.milli)

\* parseFloat: optional sign, digits, optional fraction; the longest numeric
\* prefix is read and the rest of the string is ignored; NaN when there is no
\* numeric prefix.  (Exponents and Infinity do not occur in the inputs.)
parseFloat(str) ==
  LET t        == TrimStart(str)
      signed   == t # <<>> /\ Head(t) \in {"-", "+"}
      negative == t # <<>> /\ Head(t) = "-"
      body     == IF signed THEN Tail(t) ELSE t
      intLen   == DigitPrefixLen(body)
      rest     == SubSeq(body, intLen + 1, Len(body))
      hasDot   == rest # <<>> /\ Head(rest) = "."
      fracAll  == IF hasDot THEN SubSeq(Tail(rest), 1, DigitPrefixLen(Tail(rest)))
                  ELSE <<>>
      frac3    == SubSeq(fracAll \o <<"0", "0", "0">>, 1, 3)
      mag      == DigitsValue(SubSeq(body, 1, intLen)) * 1000 + DigitsValue(frac3)
  IN  IF intLen = 0 /\ fracAll = <<>> THEN NaN
      ELSE Num(IF negative THEN 0 - mag ELSE mag)

(***************************************************************************)
(* Values the user and the environment supply.                             *)
(***************************************************************************)
AddrA == <<"0", "x">> \o Repeat("a", 40)
AddrB == <<"0", "x">> \o Repeat("b", 40)

\* AddrA in upper case, a 42-character string with non-hex characters, a short one
AddrAUpper == <<"0", "x">> \o Repeat("A", 40)
AddrNonHex == <<"0", "x">> \o Repeat("z", 40)
AddrShort  == <<"0", "x", "1", "2", "3">>

\* what is typed into the address field
AddressInputs == {AddrA, AddrB}
\* what is typed into the amount field
AmountInputs == {<<"1">>}

\* what is typed into the two fields when the address book alone is exercised
BookAddressInputs == {<<>>, AddrA, AddrAUpper, AddrNonHex, AddrShort}
BookAmountInputs == {<<>>, <<"1">>, <<"0">>, <<"-", "3">>, <<"a", "b", "c">>}

\* CSV files: a valid line, a line with a malformed address and a line with
\* amount -3; a line repeating AddrA in upper case, padded with blanks and
\* followed by an empty line; a file without any valid line
CsvThreeLines ==
  AddrA \o <<",", "1", "\n">> \o AddrShort \o <<",", "2", "\n">>
        \o AddrB \o <<",", "-", "3">>
CsvDuplicate == <<" ">> \o AddrAUpper \o <<" ", ",", " ", "1", " ", "\n">>
CsvInvalid == <<"a", "b", "c", "\n", "\n">>
CsvFiles == {CsvThreeLines, CsvDuplicate, CsvInvalid}

\* accounts the wallet can expose (eth_accounts returns a list)
Account1 == "0xSender1"
Account2 == "0xSender2"
WalletAccountLists == {<<>>, <<Account1>>, <<Account2>>}

\* chain ids the wallet can be on
MONAD_TESTNET_CHAIN_ID == "0x279f"
OtherChainId == "0x1"
ChainIds == {MONAD_TESTNET_CHAIN_ID, OtherChainId}

\* deployed ERC-20 contracts offered by the token select
TokenAddresses == {"0xToken1"}

Runs == 1..MaxRuns

(***************************************************************************)
(* State.                                                                  *)
(***************************************************************************)
VARIABLES
  \* Multisender component (React state)
  recipients,          \* the recipient list being edited
  newAddress,          \* address field of the add-recipient form
  newAmount,           \* amount field of the add-recipient form
  upload,              \* CSV file being read: list captured by the handler, text
  tokenType,           \* "native" | "erc20"
  tokenAddress,        \* "" when no token is selected
  tokenSymbol,
  edits,               \* number of changes the user made to the form so far
  currentMutation,     \* the run the mutation observer follows, 0 when none
  \* wallet provider (window.ethereum) and the page
  ethereum,            \* TRUE when a wallet provider is injected
  walletAccounts,      \* what eth_accounts returns
  walletChainId,       \* what eth_chainId returns
  chainChangedPending, \* a chainChanged event waits for its listener
  walletEvents,        \* number of wallet events so far
  \* server: MemStorage
  multisendTransactions, \* Map id -> record
  nextId,                \* source of fresh ids (randomUUID)
  \* the chain: transfers that were broadcast, in order
  transfers,
  \* one activation of the Send handler and the batch run it starts
  pc,                  \* position of the activation
  closure,             \* component state captured by the handler
  multisendData,       \* argument of mutationFn
  accounts,            \* mutationFn: const accounts
  chainId,             \* mutationFn: const chainId
  transactionHashes,   \* mutationFn: const transactionHashes
  failedTransactions,  \* mutationFn: const failedTransactions
  multisendRecord,     \* mutationFn: const multisendRecord
  i,                   \* loop index
  outstanding,         \* indices whose submitter call has not settled
  issued,              \* indices for which the submitter was called, in order
  puts,                \* bodies of the PUT requests the run issued, in order
  error,               \* what the activation ended with when it failed
  result,              \* value the mutation resolved with
  apiFailures,         \* number of store requests that failed so far
  \* MemStorage.deployments
  deployments          \* id -> deployment record

uiVars     == <<recipients, newAddress, newAmount, tokenType, tokenAddress, tokenSymbol>>
walletVars == <<ethereum, walletAccounts, walletChainId, chainChangedPending, walletEvents>>
serverVars == <<multisendTransactions, nextId>>
loopVars   == <<transactionHashes, failedTransactions, i, outstanding, issued>>
runVars    == <<pc, closure, multisendData, accounts, chainId, multisendRecord,
                puts, error, result>>
vars == <<uiVars, upload, edits, currentMutation, walletVars, serverVars, transfers, loopVars,
          runVars, apiFailures, deployments>>

\* an object that stands for "no value yet"
NoRecord == [none |-> TRUE]

\* positions at which mutationFn is running (the mutation is pending)
MutationPcs == {"m_accounts", "m_chainId", "creating", "submitting", "delay",
                "updating", "recovering"}
\* positions at which the activation has ended
EndedPcs == {"returned", "rejected", "resolved", "unloaded"}

Init ==
  /\ recipients = <<>>
  /\ newAddress = <<>>
  /\ newAmount = <<>>
  /\ upload = NoRecord
  /\ tokenType = "native"
  /\ tokenAddress = ""
  /\ tokenSymbol = "MON"
  /\ edits = 0
  /\ currentMutation = 0
  /\ ethereum \in BOOLEAN
  /\ walletAccounts = <<Account1>>
  /\ walletChainId = MONAD_TESTNET_CHAIN_ID
  /\ chainChangedPending = FALSE
  /\ walletEvents = 0
  /\ multisendTransactions = <<>>
  /\ nextId = 1
  /\ transfers = <<>>
  /\ pc = [r \in Runs |-> "idle"]
  /\ closure = [r \in Runs |-> NoRecord]
  /\ multisendData = [r \in Runs |-> NoRecord]
  /\ accounts = [r \in Runs |-> <<>>]
  /\ chainId = [r \in Runs |-> ""]
  /\ transactionHashes = [r \in Runs |-> <<>>]
  /\ failedTransactions = [r \in Runs |-> <<>>]
  /\ multisendRecord = [r \in Runs |-> NoRecord]
  /\ i = [r \in Runs |-> 0]
  /\ outstanding = [r \in Runs |-> {}]
  /\ issued = [r \in Runs |-> <<>>]
  /\ puts = [r \in Runs |-> <<>>]
  /\ error = [r \in Runs |-> ""]
  /\ result = [r \in Runs |-> NoRecord]
  /\ apiFailures = 0
  /\ deployments = <<>>

(***************************************************************************)
(* Address book: addRecipient, removeRecipient, clearAll.                  *)
(***************************************************************************)
\* mutant: addRecipient without the duplicate check
addRecipientList_NoDuplicateCheck(list, address, amount) ==
  IF address = <<>> \/ amount = <<>> THEN list
  ELSE IF ~StartsWith0x(address) \/ Len(address) # 42 THEN list
  ELSE IF isNaN(parseFloat(amount)) \/ parseFloat(amount).milli <= 0 THEN list
  ELSE Append(list, [address |-> address, amount |-> amount])

\* the list addRecipient leaves behind for the typed address and amount
addRecipientList(list, address, amount) ==
  IF address = <<>> \/ amount = <<>> THEN list
  ELSE IF ~StartsWith0x(address) \/ Len(address) # 42 THEN list
  ELSE IF isNaN(parseFloat(amount)) \/ parseFloat(amount).milli <= 0 THEN list
  ELSE IF \E k \in 1..Len(list) :
            toLowerCase(list[k].address) = toLowerCase(address) THEN list
  ELSE Append(list, [address |-> address, amount |-> amount])

\* a change of the form counts as one edit of the user
Edited ==
  /\ edits < MaxEdits
  /\ edits' = IF uiVars' # uiVars THEN edits + 1 ELSE edits

\* the user types address and amount and clicks Add; the fields are cleared when
\* the entry is added and keep what was typed when it is rejected
addRecipient(address, amount) ==
  /\ Len(recipients) < MaxRecipients
  /\ recipients' = addRecipientList(recipients, address, amount)
  /\ IF recipients' # recipients
       THEN newAddress' = <<>> /\ newAmount' = <<>>
       ELSE newAddress' = address /\ newAmount' = amount
  /\ UNCHANGED <<deployments, upload, tokenType, tokenAddress, tokenSymbol, currentMutation, walletVars,
                 serverVars, transfers, loopVars, runVars, apiFailures>>
  /\ Edited

\* mutant: the last entry is removed whatever the index
removeRecipientList_Last(list, index) ==
  IF list = <<>> THEN list ELSE SubSeq(list, 1, Len(list) - 1)

\* recipients.filter((_, i) => i !== index), index counted from 0
removeRecipientList(list, index) ==
  LET keep == {k \in 1..Len(list) : k - 1 # index}
      F[n \in 0..Len(list)] ==
        IF n = 0 THEN <<>>
        ELSE IF n \in keep THEN Append(F[n - 1], list[n]) ELSE F[n - 1]
  IN  F[Len(list)]

removeRecipient(index) ==
  /\ recipients' = removeRecipientList(recipients, index)
  /\ UNCHANGED <<deployments, upload, newAddress, newAmount, tokenType, tokenAddress, tokenSymbol, currentMutation, walletVars,
                 serverVars, transfers, loopVars, runVars, apiFailures>>
  /\ Edited

clearAll ==
  /\ recipients' = <<>>
  /\ UNCHANGED <<deployments, upload, newAddress, newAmount, tokenType, tokenAddress, tokenSymbol, currentMutation, walletVars,
                 serverVars, transfers, loopVars, runVars, apiFailures>>
  /\ Edited

(***************************************************************************)
(* CSV import: handleCSVUpload and the onload callback of its FileReader.  *)
(***************************************************************************)
\* text.split('\n').filter(line => line.trim())
csvLines(text) == SelectSeq(Split(text, "\n"), LAMBDA line : Trim(line) # <<>>)

\* lines[i].split(',').map(item => item.trim())
csvFields(line) ==
  LET parts == Split(line, ",") IN [k \in 1..Len(parts) |-> Trim(parts[k])]

\* the line is pushed to newRecipients
csvAccepts(fields) ==
  /\ Len(fields) >= 2
  /\ fields[1] # <<>>
  /\ fields[2] # <<>>
  /\ StartsWith0x(fields[1])
  /\ Len(fields[1]) = 42
  /\ ~isNaN(parseFloat(fields[2]))

\* newRecipients after the loop over the lines
RECURSIVE newRecipientsOf(_)
newRecipientsOf(lines) ==
  IF lines = <<>> THEN <<>>
  ELSE LET fields == csvFields(Head(lines)) IN
       (IF csvAccepts(fields)
          THEN <<[address |-> fields[1], amount |-> fields[2]]>>
          ELSE <<>>) \o newRecipientsOf(Tail(lines))

\* the toast that reader.onload shows for the lines it accepted
csvToast(newRecipients) ==
  IF Len(newRecipients) > 0
    THEN [title |-> "CSV Uploaded", count |-> Len(newRecipients)]
    ELSE [title |-> "Invalid CSV", count |-> 0]

\* a file is chosen: the reader starts, its onload callback holds the recipients
\* of the render in which the handler was created
handleCSVUpload(text) ==
  /\ upload = NoRecord
  /\ edits < MaxEdits
  /\ Len(recipients) < MaxRecipients
  /\ upload' = [recipients |-> recipients, text |-> text]
  /\ UNCHANGED <<deployments, uiVars, edits, currentMutation, walletVars, serverVars, transfers,
                 loopVars, runVars, apiFailures>>

\* reader.onload: the accepted lines are appended to the captured list
readerOnload ==
  /\ upload # NoRecord
  /\ LET newRecipients == newRecipientsOf(csvLines(upload.text)) IN
       recipients' = IF Len(newRecipients) > 0
                       THEN upload.recipients \o newRecipients
                       ELSE recipients
  /\ upload' = NoRecord
  /\ UNCHANGED <<deployments, newAddress, newAmount, tokenType, tokenAddress, tokenSymbol,
                 currentMutation, walletVars, serverVars, transfers, loopVars, runVars,
                 apiFailures>>
  /\ Edited

(***************************************************************************)
(* Token selection.                                                        *)
(***************************************************************************)
\* onValueChange of the token type select
setTokenType(value) ==
  /\ tokenType' = value
  /\ IF value = "native"
       THEN tokenSymbol' = "MON" /\ tokenAddress' = ""
       ELSE UNCHANGED <<tokenSymbol, tokenAddress>>
  /\ UNCHANGED <<deployments, upload, recipients, newAddress, newAmount, currentMutation, walletVars, serverVars, transfers,
                 loopVars, runVars, apiFailures>>
  /\ Edited

\* onValueChange of the token select, rendered only for erc20
selectToken(value) ==
  /\ tokenType = "erc20"
  /\ tokenAddress' = value
  /\ tokenSymbol' = "TKN"
  /\ UNCHANGED <<deployments, upload, recipients, newAddress, newAmount, tokenType, currentMutation, walletVars, serverVars,
                 transfers, loopVars, runVars, apiFailures>>
  /\ Edited


(***************************************************************************)
(* Server: insert schema, MemStorage, routes POST and PUT /api/multisend.  *)
(***************************************************************************)
\* {...base, ...updates}
Spread(base, updates) == updates @@ base

\* columns of multisend_transactions without id and createdAt
InsertColumns == {"senderAddress", "recipients", "totalAmount", "tokenType",
                  "tokenAddress", "tokenSymbol", "transactionHash",
                  "transactionHashes", "failedAddresses", "status", "gasUsed"}
\* notNull columns without a default
RequiredColumns == {"senderAddress", "recipients", "totalAmount"}

\* insertMultisendSchema.parse: unknown keys are stripped, required keys must be there
insertMultisendSchema(body) ==
  [success |-> RequiredColumns \subseteq DOMAIN body,
   data    |-> [k \in (DOMAIN body) \cap InsertColumns |-> body[k]]]

\* mutant: the record is built and returned but not put into the map
createMultisendTransaction_NotStored(map, insertMultisend, id) ==
  [transaction |-> Spread(insertMultisend,
                          [transactionHash |-> "null", gasUsed |-> "null", id |-> id,
                           status |-> "pending", createdAt |-> id]),
   map |-> map]

\* MemStorage.createMultisendTransaction: the record built for the fresh id and
\* the map after this.multisendTransactions.set(id, transaction)
createMultisendTransaction(map, insertMultisend, id) ==
  LET transaction ==
        Spread(insertMultisend,
               [transactionHash |-> "null", gasUsed |-> "null", id |-> id,
                status |-> "pending", createdAt |-> id])
  IN  [transaction |-> transaction, map |-> (id :> transaction) @@ map]

\* mutant: the update puts the supplied fields in the place of the record
updateMultisendTransaction_Replaces(map, id, updates) ==
  IF id \notin DOMAIN map THEN map ELSE [map EXCEPT ![id] = updates]

\* mutant: the update takes the record out of the map
updateMultisendTransaction_Removes(map, id, updates) ==
  [k \in (DOMAIN map) \ {id} |-> map[k]]

\* mutant: the merged record is returned but not put into the map
updateMultisendTransaction_Lost(map, id, updates) == map

\* MemStorage.updateMultisendTransaction: the map after the call
updateMultisendTransaction(map, id, updates) ==
  IF id \notin DOMAIN map THEN map
  ELSE [map EXCEPT ![id] = Spread(map[id], updates)]

\* MemStorage.getMultisendTransaction
getMultisendTransaction(id) ==
  IF id \in DOMAIN multisendTransactions THEN multisendTransactions[id] ELSE NoRecord

\* MemStorage.getAllMultisendTransactions: the records, latest createdAt first
getAllMultisendTransactions ==
  LET ids == DOMAIN multisendTransactions
      later(id) == {j \in ids : multisendTransactions[j].createdAt
                                  > multisendTransactions[id].createdAt}
  IN  [k \in 1..Cardinality(ids) |->
         multisendTransactions[CHOOSE id \in ids : Cardinality(later(id)) = k - 1]]

\* POST /api/multisend: the map after the request and the JSON answered
postMultisend(map, id, body) ==
  LET validated == insertMultisendSchema(body)
      created == createMultisendTransaction(
                   map, Spread(validated.data, [status |-> "pending"]), id)
  IN  IF validated.success
        THEN [ok |-> TRUE, map |-> created.map, json |-> created.transaction]
        ELSE [ok |-> FALSE, map |-> map, json |-> NoRecord]

\* PUT /api/multisend/:id: 404 when the store has no such record
putMultisend(map, id, body) ==
  IF id \in DOMAIN map
    THEN [ok |-> TRUE, map |-> updateMultisendTransaction(map, id, body)]
    ELSE [ok |-> FALSE, map |-> map]

(***************************************************************************)
(* sendMutation.mutationFn: helpers.                                       *)
(***************************************************************************)
HexChars == Digits \cup {"a", "b", "c", "d", "e", "f", "A", "B", "C", "D", "E", "F"}

\* web3.utils.isAddress for single-case input: 40 hex digits, 0x optional
isAddress(a) ==
  LET hex == IF StartsWith0x(a) THEN SubSeq(a, 3, Len(a)) ELSE a
  IN  Len(hex) = 40 /\ \A k \in 1..40 : hex[k] \in HexChars

\* recipients.reduce((sum, r) => sum + parseFloat(r.amount), 0)
RECURSIVE totalAmountOf(_)
totalAmountOf(list) ==
  IF list = <<>> THEN Num(0)
  ELSE NumAdd(totalAmountOf(SubSeq(list, 1, Len(list) - 1)),
              parseFloat(list[Len(list)].amount))

\* mutant: a run with any failure is classified failed
finalStatus_NoPartial(failed, recips) ==
  IF Len(failed) = 0 THEN "confirmed" ELSE "failed"

\* classification of the run after the loop
finalStatus(failed, recips) ==
  IF Len(failed) = 0 THEN "confirmed"
  ELSE IF Len(failed) = Len(recips) THEN "failed"
  ELSE "partially_failed"

\* mutant: the final PUT carries a total over the recipients that succeeded
finalUpdateBody_Retotalled(hashes, failed, recips) ==
  [status |-> finalStatus(failed, recips), transactionHashes |-> hashes,
   failedAddresses |-> failed, gasUsed |-> "0",
   totalAmount |-> totalAmountOf(SubSeq(recips, 1, Len(hashes)))]

\* body of the PUT issued after the loop
finalUpdateBody(hashes, failed, recips) ==
  [status |-> finalStatus(failed, recips), transactionHashes |-> hashes,
   failedAddresses |-> failed, gasUsed |-> "0"]

\* body of the PUT issued by the outer catch
recoveryUpdateBody(hashes, failed, recips) ==
  [status |-> "failed", transactionHashes |-> hashes,
   failedAddresses |-> [k \in 1..Len(recips) |-> recips[k].address]]

\* value mutationFn returns
outcomeOf(record, hashes, failed, recips) ==
  Spread(record, [status |-> finalStatus(failed, recips),
                  transactionHashes |-> hashes, failedTransactions |-> failed])

\* apiRequest throws when the request does not reach the store or is answered
\* with an error status; the transport lets a bounded number of requests fail
apiRequestFails == apiFailures < MaxApiFailures

\* sendMutation.isPending
isPending == currentMutation # 0 /\ pc[currentMutation] \in MutationPcs

\* disabled attribute of the Send button
sendDisabled ==
  Len(recipients) = 0 \/ isPending \/ (tokenType = "erc20" /\ tokenAddress = "")

\* the activation a click on Send becomes
NextRun == CHOOSE r \in Runs : pc[r] = "idle" /\ \A q \in Runs : q < r => pc[q] # "idle"

\* the activation ends at position p with message msg
Ends(r, p, msg) ==
  /\ pc' = [pc EXCEPT ![r] = p]
  /\ error' = [error EXCEPT ![r] = msg]

(***************************************************************************)
(* handleSendToMultiple.                                                   *)
(***************************************************************************)
\* click on Send: the checks before the wallet is asked for its accounts
handleSendToMultiple ==
  /\ \E r \in Runs : pc[r] = "idle"
  /\ ~sendDisabled
  /\ LET r == NextRun IN
       /\ closure' = [closure EXCEPT ![r] =
                        [recipients |-> recipients, tokenType |-> tokenType,
                         tokenAddress |-> tokenAddress, tokenSymbol |-> tokenSymbol]]
       /\ IF Len(recipients) = 0 THEN Ends(r, "returned", "No Recipients")
          ELSE IF tokenType = "erc20" /\ tokenAddress = ""
            THEN Ends(r, "returned", "Token Not Selected")
          ELSE IF ~ethereum THEN Ends(r, "returned", "Wallet Not Found")
          ELSE pc' = [pc EXCEPT ![r] = "h_accounts"] /\ UNCHANGED error
  /\ UNCHANGED <<deployments, upload, uiVars, edits, currentMutation, walletVars, serverVars, transfers, loopVars,
                 multisendData, accounts, chainId, multisendRecord, puts, result,
                 apiFailures>>

\* mutant: the token address of the form is handed on whatever the token type
multisendDataOf_FormAddress(c, accts) ==
  [recipients    |-> c.recipients,
   totalAmount   |-> totalAmountOf(c.recipients),
   tokenType     |-> c.tokenType,
   tokenAddress  |-> c.tokenAddress,
   tokenSymbol   |-> c.tokenSymbol,
   senderAddress |-> accts[1]]

\* the object handed to sendMutation.mutate
multisendDataOf(c, accts) ==
  [recipients    |-> c.recipients,
   totalAmount   |-> totalAmountOf(c.recipients),
   tokenType     |-> c.tokenType,
   tokenAddress  |-> IF c.tokenType = "erc20" THEN c.tokenAddress ELSE "null",
   tokenSymbol   |-> c.tokenSymbol,
   senderAddress |-> accts[1]]

\* eth_accounts answered to the handler; confirm() answered by the user;
\* mutate() runs mutationFn up to its first await
handleAccountsResolved(r, confirmed) ==
  /\ pc[r] = "h_accounts"
  /\ IF walletAccounts = <<>>
       THEN Ends(r, "returned", "Wallet Not Connected")
            /\ UNCHANGED <<multisendData, currentMutation>>
     ELSE IF ~confirmed
       THEN Ends(r, "returned", "Cancelled")
            /\ UNCHANGED <<multisendData, currentMutation>>
     ELSE /\ multisendData' = [multisendData EXCEPT ![r] =
                                 multisendDataOf(closure[r], walletAccounts)]
          /\ currentMutation' = r
          /\ IF ~ethereum THEN Ends(r, "rejected", "MetaMask not available")
             ELSE pc' = [pc EXCEPT ![r] = "m_accounts"] /\ UNCHANGED error
  /\ UNCHANGED <<deployments, upload, uiVars, edits, walletVars, serverVars, transfers, loopVars, closure,
                 accounts, chainId, multisendRecord, puts, result, apiFailures>>

\* the wallet rejects the handler's eth_accounts request
handleAccountsRejected(r) ==
  /\ pc[r] = "h_accounts"
  /\ Ends(r, "returned", "Wallet Error")
  /\ UNCHANGED <<deployments, upload, uiVars, edits, currentMutation, walletVars, serverVars, transfers, loopVars,
                 closure, multisendData, accounts, chainId, multisendRecord, puts,
                 result, apiFailures>>

(***************************************************************************)
(* sendMutation.mutationFn: checks and record creation.                    *)
(***************************************************************************)
mutationAccountsResolved(r) ==
  /\ pc[r] = "m_accounts"
  /\ accounts' = [accounts EXCEPT ![r] = walletAccounts]
  /\ IF Len(walletAccounts) = 0 THEN Ends(r, "rejected", "Wallet not connected")
     ELSE pc' = [pc EXCEPT ![r] = "m_chainId"] /\ UNCHANGED error
  /\ UNCHANGED <<deployments, upload, uiVars, edits, currentMutation, walletVars, serverVars, transfers, loopVars,
                 closure, multisendData, chainId, multisendRecord, puts, result,
                 apiFailures>>

\* mutant: the chain id is not checked
chainAccepted_Any(id) == TRUE

\* the chain id the run goes on with
chainAccepted(id) == id = MONAD_TESTNET_CHAIN_ID

mutationChainIdResolved(r) ==
  /\ pc[r] = "m_chainId"
  /\ chainId' = [chainId EXCEPT ![r] = walletChainId]
  /\ IF ~chainAccepted(walletChainId)
       THEN Ends(r, "rejected", "Please switch to Monad Testnet")
     ELSE pc' = [pc EXCEPT ![r] = "creating"] /\ UNCHANGED error
  /\ UNCHANGED <<deployments, upload, uiVars, edits, currentMutation, walletVars, serverVars, transfers, loopVars,
                 closure, multisendData, accounts, multisendRecord, puts, result,
                 apiFailures>>

\* the wallet rejects eth_accounts or eth_chainId of mutationFn
mutationRequestRejected(r) ==
  /\ pc[r] \in {"m_accounts", "m_chainId"}
  /\ Ends(r, "rejected", "Provider error")
  /\ UNCHANGED <<deployments, upload, uiVars, edits, currentMutation, walletVars, serverVars, transfers, loopVars,
                 closure, multisendData, accounts, chainId, multisendRecord, puts,
                 result, apiFailures>>

\* mutant: the loop is left and the final PUT is issued after the first recipient
Continue_UpdateAfterFirst(r, n, hashes, failed) ==
  LET recips == multisendData[r].recipients IN
  /\ transactionHashes' = [transactionHashes EXCEPT ![r] = hashes]
  /\ failedTransactions' = [failedTransactions EXCEPT ![r] = failed]
  /\ i' = [i EXCEPT ![r] = n]
  /\ IF n < 1
       THEN /\ pc' = [pc EXCEPT ![r] = "submitting"]
            /\ outstanding' = [outstanding EXCEPT ![r] = {n}]
            /\ issued' = [issued EXCEPT ![r] = Append(@, n)]
            /\ UNCHANGED puts
       ELSE /\ pc' = [pc EXCEPT ![r] = "updating"]
            /\ outstanding' = [outstanding EXCEPT ![r] = {}]
            /\ puts' = [puts EXCEPT ![r] =
                          Append(@, finalUpdateBody(hashes, failed, recips))]
            /\ UNCHANGED issued

\* mutant: the submitter is called for all remaining recipients without awaiting
Continue_AllAtOnce(r, n, hashes, failed) ==
  LET recips == multisendData[r].recipients IN
  /\ transactionHashes' = [transactionHashes EXCEPT ![r] = hashes]
  /\ failedTransactions' = [failedTransactions EXCEPT ![r] = failed]
  /\ i' = [i EXCEPT ![r] = n]
  /\ IF n < Len(recips)
       THEN /\ pc' = [pc EXCEPT ![r] = "submitting"]
            /\ outstanding' = [outstanding EXCEPT ![r] = n..(Len(recips) - 1)]
            /\ issued' = [issued EXCEPT ![r] =
                            @ \o [k \in 1..(Len(recips) - n) |-> n + k - 1]]
            /\ UNCHANGED puts
       ELSE /\ pc' = [pc EXCEPT ![r] = "updating"]
            /\ outstanding' = [outstanding EXCEPT ![r] = {}]
            /\ puts' = [puts EXCEPT ![r] =
                          Append(@, finalUpdateBody(hashes, failed, recips))]
            /\ UNCHANGED issued

\* The loop goes on with index n and the given result lists: the submitter is
\* called for recipient n, or the loop is left and the final PUT is issued.
Continue(r, n, hashes, failed) ==
  LET recips == multisendData[r].recipients IN
  /\ transactionHashes' = [transactionHashes EXCEPT ![r] = hashes]
  /\ failedTransactions' = [failedTransactions EXCEPT ![r] = failed]
  /\ i' = [i EXCEPT ![r] = n]
  /\ IF n < Len(recips)
       THEN /\ pc' = [pc EXCEPT ![r] = "submitting"]
            /\ outstanding' = [outstanding EXCEPT ![r] = {n}]
            /\ issued' = [issued EXCEPT ![r] = Append(@, n)]
            /\ UNCHANGED puts
       ELSE /\ pc' = [pc EXCEPT ![r] = "updating"]
            /\ outstanding' = [outstanding EXCEPT ![r] = {}]
            /\ puts' = [puts EXCEPT ![r] =
                          Append(@, finalUpdateBody(hashes, failed, recips))]
            /\ UNCHANGED issued

\* body of the POST that creates the record
createBody(data) == Spread(data, [status |-> "pending", transactionHashes |-> <<>>])

\* POST /api/multisend answered; the loop is entered
createResolved(r) ==
  /\ pc[r] = "creating"
  /\ LET resp == postMultisend(multisendTransactions, nextId,
                               createBody(multisendData[r])) IN
       IF resp.ok
         THEN /\ multisendTransactions' = resp.map
              /\ nextId' = nextId + 1
              /\ multisendRecord' = [multisendRecord EXCEPT ![r] = resp.json]
              /\ Continue(r, 0, <<>>, <<>>)
              /\ UNCHANGED error
         ELSE /\ Ends(r, "rejected", "400: Invalid transaction data")
              /\ UNCHANGED <<serverVars, multisendRecord, loopVars, puts>>
  /\ UNCHANGED <<deployments, upload, uiVars, edits, currentMutation, walletVars, transfers, closure,
                 multisendData, accounts, chainId, result, apiFailures>>

\* the POST does not reach the store: apiRequest throws
createFailed(r) ==
  /\ pc[r] = "creating"
  /\ apiRequestFails
  /\ apiFailures' = apiFailures + 1
  /\ Ends(r, "rejected", "Create request failed")
  /\ UNCHANGED <<deployments, upload, uiVars, edits, currentMutation, walletVars, serverVars, transfers, loopVars,
                 closure, multisendData, accounts, chainId, multisendRecord, puts,
                 result>>

(***************************************************************************)
(* The submission loop.                                                    *)
(***************************************************************************)
\* mutant: the loop reads the list of the form where it has an entry at i
recipientAt_FormList(r) ==
  IF i[r] < Len(recipients) THEN recipients[i[r] + 1]
  ELSE multisendData[r].recipients[i[r] + 1]

\* the recipient the loop is at
recipientAt(r) == multisendData[r].recipients[i[r] + 1]

\* token balances on the chain before any batch, in thousandths of a token:
\* the first account holds one token, the other account none
initialTokenBalance(account) == IF account = Account1 THEN 1000 ELSE 0

\* thousandths of the token that the first n transfers took from the account
RECURSIVE tokensSent(_, _, _)
tokensSent(token, account, n) ==
  IF n = 0 THEN 0
  ELSE tokensSent(token, account, n - 1)
         + (IF /\ transfers[n].tokenType = "erc20"
               /\ transfers[n].tokenAddress = token
               /\ transfers[n].from = account
              THEN parseFloat(transfers[n].value).milli ELSE 0)

\* tokenContract.methods.balanceOf(account).call()
balanceOf(token, account) ==
  initialTokenBalance(account) - tokensSent(token, account, Len(transfers))

\* mutant: sendERC20Token without the balance check
sufficientTokenBalance_Unchecked(balance, amountInWei) == TRUE

\* sendERC20Token: the check of the balance before transfer is called
sufficientTokenBalance(balance, amountInWei) == ~(balance < amountInWei)

\* what sendTransaction / sendERC20Token need in order to broadcast
submitterCanSend(r) ==
  /\ ethereum
  /\ Len(walletAccounts) # 0
  /\ isAddress(recipientAt(r).address)
  /\ ~isNaN(parseFloat(recipientAt(r).amount))
  /\ parseFloat(recipientAt(r).amount).milli > 0
  /\ multisendData[r].tokenType = "erc20" =>
       sufficientTokenBalance(balanceOf(multisendData[r].tokenAddress, walletAccounts[1]),
                              parseFloat(recipientAt(r).amount).milli)

\* the transfer the wallet broadcasts for the current recipient
transferOf(r) ==
  [from         |-> walletAccounts[1],
   to           |-> recipientAt(r).address,
   value        |-> recipientAt(r).amount,
   tokenType    |-> multisendData[r].tokenType,
   tokenAddress |-> multisendData[r].tokenAddress,
   chainId      |-> walletChainId,
   balance      |-> IF multisendData[r].tokenType = "erc20"
                      THEN balanceOf(multisendData[r].tokenAddress, walletAccounts[1])
                      ELSE "null",
   mined        |-> FALSE,
   run          |-> r,
   index        |-> i[r]]

\* place in transfers of the transaction that the outstanding submitter call of
\* the run has sent, 0 when it has sent none
sentBy(r) ==
  IF \E t \in 1..Len(transfers) : transfers[t].run = r /\ transfers[t].index = i[r]
    THEN CHOOSE t \in 1..Len(transfers) :
           transfers[t].run = r /\ transfers[t].index = i[r]
    ELSE 0

\* the checks of the submitter pass and the wallet broadcasts the transaction
walletBroadcast(r) ==
  /\ pc[r] = "submitting"
  /\ i[r] \in outstanding[r]
  /\ sentBy(r) = 0
  /\ submitterCanSend(r)
  /\ transfers' = Append(transfers, transferOf(r))
  /\ UNCHANGED <<deployments, upload, uiVars, edits, currentMutation, walletVars, serverVars, loopVars,
                 runVars, apiFailures>>

\* the chain includes a broadcast transaction in a block
blockIncluded(t) ==
  /\ t \in 1..Len(transfers)
  /\ ~transfers[t].mined
  /\ transfers' = [transfers EXCEPT ![t].mined = TRUE]
  /\ UNCHANGED <<deployments, upload, uiVars, edits, currentMutation, walletVars, serverVars, loopVars,
                 runVars, apiFailures>>

\* await web3.eth.sendTransaction(...) / transfer(...).send(...): the promise
\* settles with the receipt, which exists once the transaction is in a block
receiptOf(transfer) == transfer.mined

\* mutant: the hash is put in front of the hashes gathered so far
hashesAfterSend_Unshift(hashes, hash) == <<hash>> \o hashes

\* transactionHashes.push(result.transactionHash)
hashesAfterSend(hashes, hash) == Append(hashes, hash)

\* the submitter call of recipient i returns the transaction hash of its receipt
submitterResolved(r) ==
  /\ pc[r] = "submitting"
  /\ i[r] \in outstanding[r]
  /\ sentBy(r) # 0
  /\ receiptOf(transfers[sentBy(r)])
  /\ UNCHANGED transfers
  /\ LET hash == sentBy(r)
         hashes == hashesAfterSend(transactionHashes[r], hash) IN
       IF i[r] < Len(multisendData[r].recipients) - 1
         THEN /\ transactionHashes' = [transactionHashes EXCEPT ![r] = hashes]
              /\ outstanding' = [outstanding EXCEPT ![r] = @ \ {i[r]}]
              /\ pc' = [pc EXCEPT ![r] = "delay"]
              /\ UNCHANGED <<failedTransactions, i, issued, puts>>
         ELSE Continue(r, i[r] + 1, hashes, failedTransactions[r])
  /\ UNCHANGED <<deployments, upload, uiVars, edits, currentMutation, walletVars, serverVars, closure,
                 multisendData, accounts, chainId, multisendRecord, error, result,
                 apiFailures>>

\* mutant: the inner catch does not record the address
failedAfterCatch_NotRecorded(failed, recipient) == failed

\* inner catch: failedTransactions.push(recipient.address)
failedAfterCatch(failed, recipient) == Append(failed, recipient.address)

\* mutant: the inner catch tries the same recipient again
indexAfterCatch_Retry(index, length) == index

\* mutant: the inner catch leaves the loop
indexAfterCatch_Break(index, length) == length

\* inner catch: continue, the loop goes on with the next index
indexAfterCatch(index, length) == index + 1

\* mutant: there is no inner catch, the submitter's error reaches the outer catch
submitterRejected_Escapes(r) ==
  /\ pc[r] = "submitting"
  /\ i[r] \in outstanding[r]
  /\ pc' = [pc EXCEPT ![r] = "recovering"]
  /\ error' = [error EXCEPT ![r] = "Transaction failed"]
  /\ puts' = [puts EXCEPT ![r] =
                Append(@, [status |-> "failed",
                           transactionHashes |-> transactionHashes[r],
                           failedAddresses |->
                             [k \in 1..Len(multisendData[r].recipients) |->
                                multisendData[r].recipients[k].address]])]
  /\ outstanding' = [outstanding EXCEPT ![r] = {}]
  /\ UNCHANGED <<deployments, upload, uiVars, edits, currentMutation, walletVars, serverVars, transfers,
                 transactionHashes, failedTransactions, i, issued, closure,
                 multisendData, accounts, chainId, multisendRecord, result,
                 apiFailures>>

\* the submitter call of recipient i throws; the inner catch records the address
submitterRejected(r) ==
  /\ pc[r] = "submitting"
  /\ i[r] \in outstanding[r]
  /\ sentBy(r) = 0
  /\ Continue(r, indexAfterCatch(i[r], Len(multisendData[r].recipients)),
              transactionHashes[r],
              failedAfterCatch(failedTransactions[r], recipientAt(r)))
  /\ UNCHANGED <<deployments, upload, uiVars, edits, currentMutation, walletVars, serverVars, transfers, closure,
                 multisendData, accounts, chainId, multisendRecord, error, result,
                 apiFailures>>

\* the delay between two submissions has passed
delayElapsed(r) ==
  /\ pc[r] = "delay"
  /\ Continue(r, i[r] + 1, transactionHashes[r], failedTransactions[r])
  /\ UNCHANGED <<deployments, upload, uiVars, edits, currentMutation, walletVars, serverVars, transfers, closure,
                 multisendData, accounts, chainId, multisendRecord, error, result,
                 apiFailures>>

(***************************************************************************)
(* Final update, outer catch, onSuccess.                                   *)
(***************************************************************************)
\* the outer catch is entered: the recovery PUT is issued
EnterCatch(r, msg) ==
  /\ pc' = [pc EXCEPT ![r] = "recovering"]
  /\ error' = [error EXCEPT ![r] = msg]
  /\ puts' = [puts EXCEPT ![r] =
                Append(@, recoveryUpdateBody(transactionHashes[r], failedTransactions[r],
                                             multisendData[r].recipients))]

\* the final PUT is answered; on success mutationFn returns and onSuccess runs
updateResolved(r) ==
  /\ pc[r] = "updating"
  /\ LET resp == putMultisend(multisendTransactions, multisendRecord[r].id,
                              puts[r][Len(puts[r])]) IN
       IF resp.ok
         THEN /\ multisendTransactions' = resp.map
              /\ result' = [result EXCEPT ![r] =
                              outcomeOf(multisendRecord[r], transactionHashes[r],
                                        failedTransactions[r],
                                        multisendData[r].recipients)]
              /\ pc' = [pc EXCEPT ![r] = "resolved"]
              /\ recipients' = <<>>
              /\ UNCHANGED <<error, puts>>
         ELSE /\ EnterCatch(r, "404: Transaction not found")
              /\ UNCHANGED <<multisendTransactions, result, recipients>>
  /\ UNCHANGED <<deployments, upload, newAddress, newAmount, tokenType, tokenAddress, tokenSymbol, edits, currentMutation,
                 walletVars, nextId, transfers, loopVars, closure, multisendData, accounts,
                 chainId, multisendRecord, apiFailures>>

\* the final PUT does not reach the store: apiRequest throws into the outer catch
updateFailed(r) ==
  /\ pc[r] = "updating"
  /\ apiRequestFails
  /\ apiFailures' = apiFailures + 1
  /\ EnterCatch(r, "Update request failed")
  /\ UNCHANGED <<deployments, upload, uiVars, edits, currentMutation, walletVars, serverVars, transfers, loopVars,
                 closure, multisendData, accounts, chainId, multisendRecord, result>>

\* the recovery PUT is answered; the caught error is thrown again
recoveryResolved(r) ==
  /\ pc[r] = "recovering"
  /\ LET resp == putMultisend(multisendTransactions, multisendRecord[r].id,
                              puts[r][Len(puts[r])]) IN
       /\ multisendTransactions' = resp.map
       /\ Ends(r, "rejected", IF resp.ok THEN error[r] ELSE "404: Transaction not found")
  /\ UNCHANGED <<deployments, upload, uiVars, edits, currentMutation, walletVars, nextId, transfers, loopVars,
                 closure, multisendData, accounts, chainId, multisendRecord, puts,
                 result, apiFailures>>

\* the recovery PUT does not reach the store: its error leaves the catch
recoveryFailed(r) ==
  /\ pc[r] = "recovering"
  /\ apiRequestFails
  /\ apiFailures' = apiFailures + 1
  /\ Ends(r, "rejected", "Recovery request failed")
  /\ UNCHANGED <<deployments, upload, uiVars, edits, currentMutation, walletVars, serverVars, transfers, loopVars,
                 closure, multisendData, accounts, chainId, multisendRecord, puts,
                 result>>

(***************************************************************************)
(* Wallet events; WalletConnect's chainChanged listener reloads the page.  *)
(***************************************************************************)
accountsChanged(list) ==
  /\ ethereum
  /\ walletEvents < MaxWalletEvents
  /\ list # walletAccounts
  /\ walletAccounts' = list
  /\ walletEvents' = walletEvents + 1
  /\ UNCHANGED <<deployments, upload, uiVars, edits, currentMutation, ethereum, walletChainId,
                 chainChangedPending, serverVars, transfers, loopVars, runVars,
                 apiFailures>>

chainSwitched(id) ==
  /\ ethereum
  /\ walletEvents < MaxWalletEvents
  /\ id # walletChainId
  /\ walletChainId' = id
  /\ chainChangedPending' = TRUE
  /\ walletEvents' = walletEvents + 1
  /\ UNCHANGED <<deployments, upload, uiVars, edits, currentMutation, ethereum, walletAccounts, serverVars,
                 transfers, loopVars, runVars, apiFailures>>

\* window.location.reload(): the component state is the initial one again and
\* every activation that has not ended stops where it is
chainChangedListener ==
  /\ chainChangedPending
  /\ chainChangedPending' = FALSE
  /\ recipients' = <<>>
  /\ newAddress' = <<>>
  /\ newAmount' = <<>>
  /\ upload' = NoRecord
  /\ tokenType' = "native"
  /\ tokenAddress' = ""
  /\ tokenSymbol' = "MON"
  /\ currentMutation' = 0
  /\ UNCHANGED edits
  /\ pc' = [r \in Runs |->
              IF pc[r] \in EndedPcs \cup {"idle"} THEN pc[r] ELSE "unloaded"]
  /\ UNCHANGED <<deployments, ethereum, walletAccounts, walletChainId, walletEvents, serverVars,
                 transfers, loopVars,
                 closure, multisendData, accounts, chainId, multisendRecord, puts,
                 error, result, apiFailures>>

(***************************************************************************)
(* Specification.                                                          *)
(***************************************************************************)
\* Scenario followed by Spec: Send is not clicked again while an earlier click
\* still waits for the wallet's accounts, so activations do not overlap.
NoOverlap == \A q \in Runs : pc[q] # "h_accounts"

Next ==
  \/ \E a \in AddressInputs, m \in AmountInputs : addRecipient(a, m)
  \/ \E index \in 0..MaxRecipients : removeRecipient(index)
  \/ clearAll
  \/ \E value \in {"native", "erc20"} : setTokenType(value)
  \/ \E value \in TokenAddresses : selectToken(value)
  \/ (NoOverlap /\ handleSendToMultiple)
  \/ \E r \in Runs, confirmed \in BOOLEAN : handleAccountsResolved(r, confirmed)
  \/ \E r \in Runs : handleAccountsRejected(r)
  \/ \E r \in Runs : mutationAccountsResolved(r)
  \/ \E r \in Runs : mutationChainIdResolved(r)
  \/ \E r \in Runs : mutationRequestRejected(r)
  \/ \E r \in Runs : createResolved(r)
  \/ \E r \in Runs : createFailed(r)
  \/ \E r \in Runs : walletBroadcast(r)
  \/ \E t \in 1..(MaxRuns * MaxRecipients) : blockIncluded(t)
  \/ \E r \in Runs : submitterResolved(r)
  \/ \E r \in Runs : submitterRejected(r)
  \/ \E r \in Runs : delayElapsed(r)
  \/ \E r \in Runs : updateResolved(r)
  \/ \E r \in Runs : updateFailed(r)
  \/ \E r \in Runs : recoveryResolved(r)
  \/ \E r \in Runs : recoveryFailed(r)
  \/ \E list \in WalletAccountLists : accountsChanged(list)
  \/ \E id \in ChainIds : chainSwitched(id)
  \/ chainChangedListener

Spec == Init /\ [][Next]_vars

(***************************************************************************)
(* Contract deployment: ContractDeployer, POST /api/deployments,           *)
(* MemStorage.createDeployment.                                            *)
(***************************************************************************)
ContractTypes == {"erc20", "erc721", "erc1155"}

\* columns of deployments without id and createdAt
DeploymentColumns == {"contractType", "contractName", "contractSymbol", "totalSupply",
                      "baseUri", "tokenImage", "ipfsHash", "contractAddress",
                      "transactionHash", "deployerAddress", "status",
                      "constructorArgs", "compiledBytecode", "abi"}
\* notNull columns without a default
DeploymentRequired == {"contractType", "contractName", "contractSymbol", "deployerAddress"}

\* insertDeploymentSchema.parse
insertDeploymentSchema(body) ==
  IF DeploymentRequired \subseteq DOMAIN body /\ \A k \in DeploymentRequired : body[k] # "null"
    THEN [success |-> TRUE,
          data |-> [k \in (DOMAIN body) \cap DeploymentColumns |-> body[k]]]
    ELSE [success |-> FALSE, data |-> NoRecord]

\* value || null
OrNull(rec, key) ==
  IF key \in DOMAIN rec /\ rec[key] \notin {"", "null"} THEN rec[key] ELSE "null"

\* MemStorage.createDeployment
createDeployment(map, insertDeployment, id) ==
  LET deployment ==
        Spread(insertDeployment,
               [totalSupply |-> OrNull(insertDeployment, "totalSupply"),
                baseUri |-> OrNull(insertDeployment, "baseUri"),
                tokenImage |-> OrNull(insertDeployment, "tokenImage"),
                ipfsHash |-> OrNull(insertDeployment, "ipfsHash"),
                contractAddress |-> "null", transactionHash |-> "null",
                constructorArgs |-> "null", compiledBytecode |-> "null",
                abi |-> "null", id |-> id, status |-> "pending", createdAt |-> id])
  IN  [deployment |-> deployment, map |-> (id :> deployment) @@ map]

\* POST /api/deployments
postDeployments(map, id, body) ==
  LET validated == insertDeploymentSchema(body) IN
    IF ~validated.success \/ validated.data.contractType \notin ContractTypes
      THEN [ok |-> FALSE, map |-> map, json |-> NoRecord]
      ELSE LET created == createDeployment(
                            map, Spread(validated.data,
                                        [abi |-> validated.data.contractType]), id)
           IN  [ok |-> TRUE, map |-> created.map, json |-> created.deployment]

\* deploymentData of handleDeploy for a filled form
deploymentDataOf(contractType, accts) ==
  [contractType    |-> contractType,
   contractName    |-> "Token",
   contractSymbol  |-> "TKN",
   totalSupply     |-> IF contractType = "erc20" THEN "1000" ELSE "null",
   baseUri         |-> "null",
   tokenImage      |-> "",
   ipfsHash        |-> "",
   deployerAddress |-> accts[1]]

\* what deployContractClientSide resolves with for the contract at the address
deployResultOf(address) ==
  [address |-> address, transactionHash |-> "0xDeployTx", blockNumber |-> 0]

\* body of the POST that deployMutation.mutationFn issues after the deployment
deploymentBody(deploymentData, deployResult) ==
  Spread(deploymentData, [contractAddress |-> deployResult.address,
                          transactionHash |-> deployResult.transactionHash,
                          status |-> "deployed"])

\* the key createDeployment draws
nextDeploymentId == Cardinality(DOMAIN deployments) + 1

\* handleDeploy and deployMutation.mutationFn run to their end: the wallet is
\* connected to Monad Testnet, compilation and deployment succeed with the
\* contract at the address, and the POST of the deployment is answered
deploy(contractType, address) ==
  /\ nextDeploymentId <= MaxDeployments
  /\ ethereum
  /\ walletAccounts # <<>>
  /\ walletChainId = MONAD_TESTNET_CHAIN_ID
  /\ deployments' =
       postDeployments(deployments, nextDeploymentId,
                       deploymentBody(deploymentDataOf(contractType, walletAccounts),
                                      deployResultOf(address))).map
  /\ UNCHANGED <<upload, uiVars, edits, currentMutation, walletVars, serverVars,
                 transfers, loopVars, runVars, apiFailures>>

\* erc20Contracts of the Multisender: the deployments offered as tokens
erc20Contracts ==
  {id \in DOMAIN deployments :
     /\ deployments[id].contractType = "erc20"
     /\ deployments[id].status = "deployed"
     /\ deployments[id].contractAddress \notin {"", "null"}}

\* The deployer beside the form of the multisender.
NextDeploy ==
  \/ \E contractType \in ContractTypes, address \in TokenAddresses :
       deploy(contractType, address)
  \/ \E a \in AddressInputs, m \in AmountInputs : addRecipient(a, m)
  \/ \E value \in {"native", "erc20"} : setTokenType(value)
  \/ \E list \in WalletAccountLists : accountsChanged(list)

SpecDeploy == Init /\ [][NextDeploy]_vars

\* bodies of update requests that reach the route from any client
PutBodies == {[status |-> "pending"], [status |-> "confirmed"], [id |-> 1]}

\* PUT /api/multisend/:id called by a client other than the batch run
putRequest(id, body) ==
  /\ multisendTransactions' = putMultisend(multisendTransactions, id, body).map
  /\ UNCHANGED <<deployments, uiVars, upload, edits, currentMutation, walletVars, nextId, transfers,
                 loopVars, runVars, apiFailures>>

\* bodies of create requests that reach the route from any client: a complete
\* batch that carries a status and results of its own
PostBodies ==
  {[senderAddress |-> Account2,
    recipients |-> <<[address |-> AddrA, amount |-> <<"1">>]>>,
    totalAmount |-> Num(1000), tokenType |-> "native", tokenAddress |-> "null",
    tokenSymbol |-> "MON", status |-> "confirmed",
    transactionHashes |-> <<99>>, failedAddresses |-> <<AddrB>>]}

\* POST /api/multisend called by a client other than the batch run
postRequest(body) ==
  /\ nextId <= MaxRuns
  /\ LET resp == postMultisend(multisendTransactions, nextId, body) IN
       /\ multisendTransactions' = resp.map
       /\ nextId' = IF resp.ok THEN nextId + 1 ELSE nextId
  /\ UNCHANGED <<deployments, uiVars, upload, edits, currentMutation, walletVars, transfers,
                 loopVars, runVars, apiFailures>>

\* The batch runs of the native token together with update requests of other
\* clients; the wallet stays as it is.
NextStore ==
  \/ \E a \in AddressInputs, m \in AmountInputs : addRecipient(a, m)
  \/ (NoOverlap /\ handleSendToMultiple)
  \/ \E r \in Runs, confirmed \in BOOLEAN : handleAccountsResolved(r, confirmed)
  \/ \E r \in Runs : mutationAccountsResolved(r)
  \/ \E r \in Runs : mutationChainIdResolved(r)
  \/ \E r \in Runs : createResolved(r)
  \/ \E r \in Runs : walletBroadcast(r)
  \/ \E t \in 1..(MaxRuns * MaxRecipients) : blockIncluded(t)
  \/ \E r \in Runs : submitterResolved(r)
  \/ \E r \in Runs : submitterRejected(r)
  \/ \E r \in Runs : delayElapsed(r)
  \/ \E r \in Runs : updateResolved(r)
  \/ \E r \in Runs : updateFailed(r)
  \/ \E r \in Runs : recoveryResolved(r)
  \/ \E id \in 1..MaxRuns, body \in PutBodies : putRequest(id, body)
  \/ \E body \in PostBodies : postRequest(body)

SpecStore == Init /\ [][NextStore]_vars

\* The batch runs with Send clicked at any moment at which the button is
\* enabled, also while an earlier click waits for the wallet's accounts.
NextOverlap ==
  \/ \E a \in AddressInputs, m \in AmountInputs : addRecipient(a, m)
  \/ handleSendToMultiple
  \/ \E r \in Runs, confirmed \in BOOLEAN : handleAccountsResolved(r, confirmed)
  \/ \E r \in Runs : mutationAccountsResolved(r)
  \/ \E r \in Runs : mutationChainIdResolved(r)
  \/ \E r \in Runs : createResolved(r)
  \/ \E r \in Runs : walletBroadcast(r)
  \/ \E t \in 1..(MaxRuns * MaxRecipients) : blockIncluded(t)
  \/ \E r \in Runs : submitterResolved(r)
  \/ \E r \in Runs : submitterRejected(r)
  \/ \E r \in Runs : delayElapsed(r)
  \/ \E r \in Runs : updateResolved(r)

SpecOverlap == Init /\ [][NextOverlap]_vars

\* The batch runs of the native token while the form's list is edited by hand
\* and by CSV import; wallet and transport stay as they are.
NextEdit ==
  \/ \E a \in AddressInputs, m \in AmountInputs : addRecipient(a, m)
  \/ \E index \in 0..MaxRecipients : removeRecipient(index)
  \/ clearAll
  \/ \E text \in CsvFiles : handleCSVUpload(text)
  \/ readerOnload
  \/ (NoOverlap /\ handleSendToMultiple)
  \/ \E r \in Runs, confirmed \in BOOLEAN : handleAccountsResolved(r, confirmed)
  \/ \E r \in Runs : mutationAccountsResolved(r)
  \/ \E r \in Runs : mutationChainIdResolved(r)
  \/ \E r \in Runs : createResolved(r)
  \/ \E r \in Runs : walletBroadcast(r)
  \/ \E t \in 1..(MaxRuns * MaxRecipients) : blockIncluded(t)
  \/ \E r \in Runs : submitterResolved(r)
  \/ \E r \in Runs : submitterRejected(r)
  \/ \E r \in Runs : delayElapsed(r)
  \/ \E r \in Runs : updateResolved(r)

SpecEdit == Init /\ [][NextEdit]_vars

\* The address book alone, with malformed input and CSV files.
NextBook ==
  \/ \E a \in BookAddressInputs, m \in BookAmountInputs : addRecipient(a, m)
  \/ \E index \in 0..MaxRecipients : removeRecipient(index)
  \/ clearAll
  \/ \E text \in CsvFiles : handleCSVUpload(text)
  \/ readerOnload

SpecBook == Init /\ [][NextBook]_vars

(***************************************************************************)
(* Properties.                                                             *)
(***************************************************************************)
Terminal == {"confirmed", "partially_failed", "failed"}

\* the run has created its record
HasRecord(r) == multisendRecord[r] # NoRecord

\* the record of the run as the store holds it
storedRecord(r) == getMultisendTransaction(multisendRecord[r].id)

\* length of a list-valued property, 0 when the property is undefined
LenOf(rec, key) == IF key \in DOMAIN rec THEN Len(rec[key]) ELSE 0

\* number of recipients of the run
NumRecipients(r) == Len(multisendData[r].recipients)

\* C1: when a batch run resolves, the hashes and the failed addresses together
\* count one entry per recipient, in the returned outcome and in the stored record.
C1_OneOutcomePerRecipient ==
  \A r \in Runs :
    pc[r] = "resolved" =>
      /\ Len(result[r].transactionHashes) + Len(result[r].failedTransactions)
           = NumRecipients(r)
      /\ LenOf(storedRecord(r), "transactionHashes")
           + LenOf(storedRecord(r), "failedAddresses") = NumRecipients(r)
      /\ Len(result[r].transactionHashes)
           = Cardinality({t \in 1..Len(transfers) : transfers[t].run = r})

\* a run of two recipients resolved with one success and one failure
C1_Witness ==
  \E r \in Runs :
    /\ pc[r] = "resolved"
    /\ NumRecipients(r) = 2
    /\ Len(result[r].transactionHashes) = 1
    /\ Len(storedRecord(r).failedAddresses) = 1

\* the status that the outcomes of the submissions of the run call for
OutcomeStatus(r) ==
  IF failedTransactions[r] = <<>> THEN "confirmed"
  ELSE IF transactionHashes[r] = <<>> THEN "failed"
  ELSE "partially_failed"

\* C2 as claimed: every terminal status a run writes to its record is the one
\* its per-recipient outcomes call for (confirmed iff nothing failed, failed iff
\* nothing succeeded, partially_failed iff both happened).
C2_TerminalStatusFromOutcomes ==
  \A r \in Runs :
    (HasRecord(r) /\ storedRecord(r).status \in Terminal) =>
      storedRecord(r).status = OutcomeStatus(r)

\* C2 amended: the status carried by the final update of a run, which is the
\* status of the stored record and of the outcome when the run resolves, is the
\* one its per-recipient outcomes call for; the update of the outer catch
\* carries failed whatever the outcomes were.
C2_FinalUpdateStatusFromOutcomes ==
  \A r \in Runs :
    /\ Len(puts[r]) >= 1 =>
         /\ NumRecipients(r) >= 1
         /\ puts[r][1].status = OutcomeStatus(r)
         /\ puts[r][1].status = "confirmed" <=> failedTransactions[r] = <<>>
         /\ puts[r][1].status = "failed" <=> transactionHashes[r] = <<>>
         /\ puts[r][1].status = "partially_failed" <=>
              (failedTransactions[r] # <<>> /\ transactionHashes[r] # <<>>)
    /\ pc[r] = "resolved" =>
         /\ storedRecord(r).status = OutcomeStatus(r)
         /\ result[r].status = OutcomeStatus(r)
    /\ Len(puts[r]) >= 2 => puts[r][2].status = "failed"

\* a run resolved as partially_failed, another update of the outer catch was issued
C2_Witness ==
  /\ \E r \in Runs :
       /\ pc[r] = "resolved"
       /\ storedRecord(r).status = "partially_failed"
       /\ Len(transactionHashes[r]) = 1 /\ Len(failedTransactions[r]) = 1
  /\ \E r \in Runs : Len(puts[r]) = 2 /\ transactionHashes[r] # <<>>

\* indices of the run whose submitter call has settled
Settled(r) ==
  {k \in 0..(NumRecipients(r) - 1) :
     (\E n \in 1..Len(issued[r]) : issued[r][n] = k) /\ k \notin outstanding[r]}

\* settled indices for which nothing was broadcast: the submitter threw
FailedIndices(r) ==
  {k \in Settled(r) :
     ~\E t \in 1..Len(transfers) : transfers[t].run = r /\ transfers[t].index = k}

\* addresses of the recipients with index below n whose submission threw, in order
RECURSIVE FailedAddressesBelow(_, _)
FailedAddressesBelow(r, n) ==
  IF n = 0 THEN <<>>
  ELSE IF (n - 1) \in FailedIndices(r)
    THEN Append(FailedAddressesBelow(r, n - 1), multisendData[r].recipients[n].address)
    ELSE FailedAddressesBelow(r, n - 1)

\* the loop has been left
PastLoop(r) == HasRecord(r) /\ pc[r] \in {"updating", "recovering", "resolved", "rejected"}

\* C3: a submitter failure for a recipient never aborts the batch: its address is
\* appended to the failed addresses, the next recipient is submitted, and the
\* loop is only left after the last recipient was submitted.
C3_FailureNeverAborts ==
  \A r \in Runs :
    multisendData[r] # NoRecord =>
      /\ failedTransactions[r] = FailedAddressesBelow(r, NumRecipients(r))
      /\ \A k \in FailedIndices(r) :
           k + 1 < NumRecipients(r) => \E n \in 1..Len(issued[r]) : issued[r][n] = k + 1
      /\ PastLoop(r) => issued[r] = [n \in 1..NumRecipients(r) |-> n - 1]

\* the first of two recipients failed and the second was submitted all the same
C3_Witness ==
  \E r \in Runs :
    /\ pc[r] = "submitting"
    /\ NumRecipients(r) = 2
    /\ issued[r] = <<0, 1>>
    /\ failedTransactions[r] = <<multisendData[r].recipients[1].address>>

\* C4: at most one submitter call of a run is outstanding, and it is the call
\* issued last: the call for the next recipient is issued only after the call
\* for the recipient before it has settled.
C4_Sequential ==
  \A r \in Runs :
    /\ Cardinality(outstanding[r]) <= 1
    /\ \A k \in outstanding[r] :
         /\ issued[r] # <<>>
         /\ issued[r][Len(issued[r])] = k
    /\ \A n \in 1..Len(issued[r]) :
         n < Len(issued[r]) => issued[r][n] \in Settled(r)

\* the second submission is in flight after the first one has settled
C4_Witness ==
  \E r \in Runs :
    /\ issued[r] = <<0, 1>>
    /\ outstanding[r] = {1}
    /\ Len(transactionHashes[r]) = 1

\* C5: no submitter call is issued before the store holds the record of the run
\* in status pending; a run whose create request failed submits nothing.
C5_CreateBeforeSubmit ==
  \A r \in Runs :
    /\ issued[r] # <<>> =>
         /\ HasRecord(r)
         /\ multisendRecord[r].id \in DOMAIN multisendTransactions
    /\ pc[r] \in {"submitting", "delay"} => storedRecord(r).status = "pending"
    /\ ~HasRecord(r) =>
         /\ issued[r] = <<>>
         /\ \A t \in 1..Len(transfers) : transfers[t].run # r

\* one run lost its create request and submitted nothing, another one submits
\* with its pending record in the store
C5_Witness ==
  /\ \E r \in Runs :
       /\ error[r] = "Create request failed"
       /\ issued[r] = <<>>
  /\ \E r \in Runs :
       /\ pc[r] = "submitting"
       /\ storedRecord(r).status = "pending"

\* what an activation ends with when a precondition of the batch is violated
PreconditionErrors ==
  {"No Recipients", "Token Not Selected", "Wallet Not Found", "Wallet Not Connected",
   "MetaMask not available", "Wallet not connected", "Please switch to Monad Testnet"}

\* C6: a batch whose preconditions are violated when it is started fails before
\* its record is created: the POST is only issued for a non-empty recipient list,
\* a token address when the type is erc20, a wallet provider, an authorized
\* account and the expected chain id; an activation that ended on a precondition
\* has no record in the store and submitted nothing.
C6_PreconditionsBeforePending ==
  /\ \A r \in Runs :
       /\ (pc[r] = "creating" \/ HasRecord(r)) =>
            /\ ethereum
            /\ Len(multisendData[r].recipients) > 0
            /\ multisendData[r].tokenType = "erc20" =>
                 multisendData[r].tokenAddress \notin {"", "null"}
            /\ Len(accounts[r]) > 0
            /\ chainId[r] = MONAD_TESTNET_CHAIN_ID
       /\ chainId[r] \notin {"", MONAD_TESTNET_CHAIN_ID} =>
            /\ pc[r] = "rejected"
            /\ error[r] = "Please switch to Monad Testnet"
       /\ error[r] \in PreconditionErrors =>
            /\ pc[r] \in {"returned", "rejected"}
            /\ ~HasRecord(r)
            /\ issued[r] = <<>>
            /\ \A t \in 1..Len(transfers) : transfers[t].run # r
  /\ Cardinality(DOMAIN multisendTransactions)
       = Cardinality({r \in Runs : HasRecord(r)})

\* a batch was started on another chain and rejected; the store is empty and
\* nothing was broadcast
C6_Witness ==
  /\ \E r \in Runs :
       /\ pc[r] = "rejected"
       /\ chainId[r] = OtherChainId
       /\ Len(multisendData[r].recipients) > 0
  /\ DOMAIN multisendTransactions = {}
  /\ transfers = <<>>

\* C7 as claimed: every stored batch record has at most as many hashes and failed
\* addresses together as it has recipients, and exactly as many once its status
\* is confirmed, partially_failed or failed.
C7_RecordCounts ==
  \A id \in DOMAIN multisendTransactions :
    LET rec == multisendTransactions[id]
        n   == LenOf(rec, "transactionHashes") + LenOf(rec, "failedAddresses")
    IN  /\ n <= Len(rec.recipients)
        /\ rec.status \in Terminal => n = Len(rec.recipients)

\* what apiRequest throws for a store update that fails
PersistenceErrors ==
  {"Update request failed", "Recovery request failed", "404: Transaction not found"}

C9_RecoveryUpdateBody ==
  \A r \in Runs :
    /\ Len(puts[r]) <= 2
    /\ Len(puts[r]) = 2 =>
         puts[r][2] = [status |-> "failed",
                       transactionHashes |-> transactionHashes[r],
                       failedAddresses |-> failedTransactions[r]]

\* C10: from its creation until an update of its run is applied the record can
\* be read from the store with status pending, it never has another status than
\* pending or a terminal one, and once the run has resolved it can be read with
\* a terminal status.
C10_PendingThenTerminal ==
  \A r \in Runs :
    HasRecord(r) =>
      /\ getMultisendTransaction(multisendRecord[r].id) # NoRecord
      /\ storedRecord(r).id = multisendRecord[r].id
      /\ storedRecord(r).status \in {"pending"} \cup Terminal
      /\ pc[r] \in {"submitting", "delay", "updating", "recovering"} =>
           storedRecord(r).status = "pending"
      /\ pc[r] = "resolved" => storedRecord(r).status \in Terminal

\* the record of a resolved run is terminal while the record of a later run, one
\* submission done, is still pending
C10_Witness ==
  \E r, q \in Runs :
    /\ pc[r] = "resolved"
    /\ storedRecord(r).status \in Terminal
    /\ pc[q] = "delay"
    /\ Len(transactionHashes[q]) = 1
    /\ storedRecord(q).status = "pending"

\* C11 as claimed: once the stored status of a batch record is confirmed,
\* partially_failed or failed, no step of a batch run and no update call changes
\* the record's status again.
C11_TerminalStatusIsFinal ==
  [][\A id \in DOMAIN multisendTransactions :
       multisendTransactions[id].status \in Terminal =>
         /\ id \in DOMAIN multisendTransactions'
         /\ multisendTransactions'[id].status = multisendTransactions[id].status]_vars

\* C12: a batch record is never removed from the store: no step takes an id out
\* of the map, the record of every run is returned by getMultisendTransaction
\* and is in the list of getAllMultisendTransactions, and the record of a run
\* that the page reload stopped before its final update was applied is pending.
C12_NeverRemoved ==
  /\ [](\A r \in Runs :
          HasRecord(r) =>
            /\ getMultisendTransaction(multisendRecord[r].id) # NoRecord
            /\ \E k \in 1..Len(getAllMultisendTransactions) :
                 getAllMultisendTransactions[k].id = multisendRecord[r].id
            /\ pc[r] = "unloaded" => storedRecord(r).status = "pending")
  /\ [][\A id \in DOMAIN multisendTransactions :
          id \in DOMAIN multisendTransactions']_vars

\* the page was reloaded after a transfer of the run had been broadcast; the
\* record is in the store, pending
C12_Witness ==
  \E r \in Runs :
    /\ pc[r] = "unloaded"
    /\ HasRecord(r)
    /\ storedRecord(r).status = "pending"
    /\ \E t \in 1..Len(transfers) : transfers[t].run = r

\* C13 as claimed: within a run, every submission after the first one is issued
\* by the step at which the delay elapses, whether the submission before it
\* succeeded or failed.
C13_DelayBetweenSubmissions ==
  [][\A r \in Runs :
       (issued[r] # <<>> /\ Len(issued'[r]) > Len(issued[r])) => pc[r] = "delay"]_vars

\* C14: within a run the submitter is called once for each entry of the
\* recipient list: no index is issued twice, no recipient of a run has two
\* transfers, and a run that has left the loop issued exactly N calls, each of
\* which ended in one transfer or one failed address.
C14_OncePerRecipient ==
  /\ \A r \in Runs :
       /\ \A n, m \in 1..Len(issued[r]) : issued[r][n] = issued[r][m] => n = m
       /\ PastLoop(r) =>
            /\ Len(issued[r]) = NumRecipients(r)
            /\ Cardinality({t \in 1..Len(transfers) : transfers[t].run = r})
                 + Len(failedTransactions[r]) = NumRecipients(r)
  /\ \A t, u \in 1..Len(transfers) :
       (transfers[t].run = transfers[u].run /\ transfers[t].index = transfers[u].index)
         => t = u

\* a run over two recipients resolved after one failed and one succeeded
\* submission: two calls, one transfer
C14_Witness ==
  \E r \in Runs :
    /\ pc[r] = "resolved"
    /\ issued[r] = <<0, 1>>
    /\ Len(failedTransactions[r]) = 1
    /\ Cardinality({t \in 1..Len(transfers) : transfers[t].run = r}) = 1

\* a 42-character 0x-prefixed hexadecimal string
IsHexAddress(a) == Len(a) = 42 /\ StartsWith0x(a) /\ isAddress(a)

\* the amount parses to a positive number
IsPositiveAmount(m) == ~isNaN(parseFloat(m)) /\ parseFloat(m).milli > 0

\* C15 as claimed: addRecipient leaves the recipient list unchanged whenever the
\* address is empty or not a 42-character 0x-prefixed hexadecimal string, or the
\* amount is not numeric or not positive.
C15_RejectsInvalidInput ==
  [][\A a \in BookAddressInputs, m \in BookAmountInputs :
       (addRecipient(a, m) /\ (a = <<>> \/ ~IsHexAddress(a) \/ ~IsPositiveAmount(m)))
         => recipients' = recipients]_vars

\* C16: addRecipient leaves the recipient list unchanged when the address
\* equals, ignoring letter case, the address of an entry of the list; so adding
\* an address and then the same address in another case leaves one entry.
C16_RejectsDuplicate ==
  [][\A a \in BookAddressInputs, m \in BookAmountInputs :
       (addRecipient(a, m)
          /\ \E k \in 1..Len(recipients) :
               toLowerCase(recipients[k].address) = toLowerCase(a))
         => recipients' = recipients]_vars

\* AddrA was added, then AddrA in upper case was typed with a valid amount and
\* rejected: the fields still hold it and the list has the one entry
C16_Witness ==
  /\ recipients = <<[address |-> AddrA, amount |-> <<"1">>]>>
  /\ newAddress = AddrAUpper
  /\ newAmount = <<"1">>
  /\ edits = 2

\* C17 as claimed: the addresses of the recipient list are pairwise distinct
\* under case-insensitive comparison after any sequence of addRecipient, CSV
\* import, removeRecipient and clearAll.
C17_DistinctAddresses ==
  \A j, k \in 1..Len(recipients) :
    j # k => toLowerCase(recipients[j].address) # toLowerCase(recipients[k].address)

\* C18 as claimed: every entry of the recipient list has an address in
\* 42-character 0x-prefixed hexadecimal form and an amount that parses to a
\* positive number, after any sequence of addRecipient, CSV import,
\* removeRecipient and clearAll.
C18_EntriesValid ==
  \A k \in 1..Len(recipients) :
    IsHexAddress(recipients[k].address) /\ IsPositiveAmount(recipients[k].amount)

\* the list obtained by handing the lines one after the other to addRecipient
RECURSIVE AddedLineByLine(_, _)
AddedLineByLine(list, lines) ==
  IF lines = <<>> THEN list
  ELSE LET fields == csvFields(Head(lines))
           amount == IF Len(fields) >= 2 THEN fields[2] ELSE <<>>
       IN  AddedLineByLine(addRecipientList(list, fields[1], amount), Tail(lines))

\* C19 as claimed: the import appends a line exactly when addRecipient would
\* accept its address and amount against the list built so far, and discards
\* every other line; the three-line file with one valid line, one malformed
\* address and one amount -3 adds exactly one recipient.
C19_ImportLikeAddRecipient ==
  [][readerOnload =>
       /\ recipients' = AddedLineByLine(recipients, csvLines(upload.text))
       /\ upload.text = CsvThreeLines => Len(recipients') = Len(recipients) + 1]_vars

\* the run is at a token submission that the sender's balance does not cover
TokenBalanceBelowAmount(r) ==
  /\ pc[r] = "submitting"
  /\ sentBy(r) = 0
  /\ multisendData[r].tokenType = "erc20"
  /\ ethereum
  /\ Len(walletAccounts) # 0
  /\ balanceOf(multisendData[r].tokenAddress, walletAccounts[1])
       < parseFloat(recipientAt(r).amount).milli

\* C20: sendERC20Token checks the balance before it submits: no token transfer
\* was ever called with a balance of the sender below the amount, and a
\* submission that the balance does not cover settles as a failure of its
\* recipient without any transfer.
C20_BalanceCheckedBeforeTransfer ==
  /\ [](\A t \in 1..Len(transfers) :
          transfers[t].tokenType = "erc20" =>
            transfers[t].balance >= parseFloat(transfers[t].value).milli)
  /\ [][\A r \in Runs :
          (/\ TokenBalanceBelowAmount(r)
           /\ \/ transactionHashes'[r] # transactionHashes[r]
              \/ failedTransactions'[r] # failedTransactions[r])
            => /\ transfers' = transfers
               /\ transactionHashes'[r] = transactionHashes[r]
               /\ failedTransactions'[r] =
                    Append(failedTransactions[r], recipientAt(r).address)]_vars

\* a token batch sent from the account without tokens: its one submission
\* failed and nothing was transferred
C20_Witness ==
  \E r \in Runs :
    /\ pc[r] = "updating"
    /\ multisendData[r].tokenType = "erc20"
    /\ walletAccounts # <<>>
    /\ balanceOf(multisendData[r].tokenAddress, walletAccounts[1])
         < parseFloat(multisendData[r].recipients[1].amount).milli
    /\ failedTransactions[r] = <<multisendData[r].recipients[1].address>>
    /\ transfers = <<>>

\* C21 as claimed: a submission made while the wallet is on another chain than
\* the expected one fails and broadcasts nothing, so every transfer of a batch
\* is sent on the expected chain, also when the chain changes after the check
\* at the start of the run.
C21_NoTransferOnWrongChain ==
  \A t \in 1..Len(transfers) : transfers[t].chainId = MONAD_TESTNET_CHAIN_ID

\* what an update of record id with the given fields does to the store
UpdateFrame(id, fields) ==
  IF id \notin DOMAIN multisendTransactions
    THEN multisendTransactions' = multisendTransactions
    ELSE /\ DOMAIN multisendTransactions' = DOMAIN multisendTransactions
         /\ \A j \in DOMAIN multisendTransactions :
              j # id => multisendTransactions'[j] = multisendTransactions[j]
         /\ DOMAIN multisendTransactions'[id]
              = DOMAIN multisendTransactions[id] \cup DOMAIN fields
         /\ \A key \in DOMAIN fields : multisendTransactions'[id][key] = fields[key]
         /\ \A key \in DOMAIN multisendTransactions[id] \ DOMAIN fields :
              multisendTransactions'[id][key] = multisendTransactions[id][key]

\* C22: an update of an id the store does not hold leaves the store unchanged;
\* otherwise the record becomes the old record overlaid with exactly the
\* supplied fields, every other field and every other record stay as they are,
\* so of two updates of a field the later one is what the store holds.
C22_UpdateOverlaysFields ==
  [][/\ \A id \in 1..MaxRuns, body \in PutBodies :
          putRequest(id, body) => UpdateFrame(id, body)
     /\ \A r \in Runs :
          (updateResolved(r) \/ recoveryResolved(r)) =>
            UpdateFrame(multisendRecord[r].id, puts[r][Len(puts[r])])]_vars

\* while the run waits between two submissions, another client's update has set
\* the status of its record to confirmed: every other field is as it was
\* created, and the updates of the id the store does not hold created nothing
C22_Witness ==
  \E r \in Runs :
    /\ pc[r] = "delay"
    /\ storedRecord(r) = Spread(multisendRecord[r], [status |-> "confirmed"])
    /\ DOMAIN multisendTransactions = {multisendRecord[r].id}

\* C23 as claimed: at the step at which a run that created its record ends, by
\* resolving or by throwing, the recipient list holds none of the submitted
\* recipients any more.
C23_RecipientsDiscarded ==
  [][\A r \in Runs :
       (HasRecord(r) /\ pc[r] \notin EndedPcs /\ pc'[r] \in {"resolved", "rejected"})
         => \A k \in 1..Len(recipients'), n \in 1..NumRecipients(r) :
              recipients'[k] # multisendData[r].recipients[n]]_vars

\* C24 as claimed: a native submission returns its transaction identifier as
\* soon as the transaction is broadcast: whenever the outstanding call of a run
\* has broadcast its transaction, the call can return, whether the transaction
\* is in a block or not.
C24_ReturnsOnBroadcast ==
  \A r \in Runs :
    (/\ pc[r] = "submitting"
     /\ i[r] \in outstanding[r]
     /\ multisendData[r].tokenType = "native"
     /\ sentBy(r) # 0)
      => ENABLED submitterResolved(r)

\* C25: a run issues its store updates, the final one and the one of the outer
\* catch, only after the submitter was called for each of its N recipients and
\* every call has settled.
C25_UpdateAfterAllSettled ==
  \A r \in Runs :
    puts[r] # <<>> =>
      /\ Len(issued[r]) = NumRecipients(r)
      /\ outstanding[r] = {}
      /\ Settled(r) = 0..(NumRecipients(r) - 1)
      /\ Len(transactionHashes[r]) + Len(failedTransactions[r]) = NumRecipients(r)

\* the final update of a run over two recipients has just been issued
C25_Witness ==
  \E r \in Runs :
    /\ pc[r] = "updating"
    /\ Len(puts[r]) = 1
    /\ puts[r][1].status \in Terminal
    /\ NumRecipients(r) = 2
    /\ Settled(r) = {0, 1}

\* C26 as claimed: a record that a step puts into the store has status pending
\* and neither transaction hashes nor failed addresses, whatever status and
\* result fields the create request carried.
C26_CreatedPendingAndEmpty ==
  [][\A id \in (DOMAIN multisendTransactions') \ (DOMAIN multisendTransactions) :
       /\ multisendTransactions'[id].status = "pending"
       /\ LenOf(multisendTransactions'[id], "transactionHashes") = 0
       /\ LenOf(multisendTransactions'[id], "failedAddresses") = 0]_vars

\* hashes returned for the recipients with index below n whose transaction was
\* sent, in list order
RECURSIVE HashesBelow(_, _)
HashesBelow(r, n) ==
  IF n = 0 THEN <<>>
  ELSE LET sent == {t \in 1..Len(transfers) :
                      transfers[t].run = r /\ transfers[t].index = n - 1} IN
         IF sent # {}
           THEN Append(HashesBelow(r, n - 1), CHOOSE t \in sent : TRUE)
           ELSE HashesBelow(r, n - 1)

\* C27: the submitter calls of a run are issued in list order and so are its
\* transactions; when the run resolves, transactionHashes is the hashes of the
\* recipients that succeeded, in list order, and failedAddresses the addresses
\* of the recipients that failed, in list order.
C27_ListOrder ==
  /\ \A r \in Runs :
       /\ issued[r] = [n \in 1..Len(issued[r]) |-> n - 1]
       /\ pc[r] = "resolved" =>
            /\ result[r].transactionHashes = HashesBelow(r, NumRecipients(r))
            /\ result[r].failedTransactions = FailedAddressesBelow(r, NumRecipients(r))
  /\ \A t, u \in 1..Len(transfers) :
       (t < u /\ transfers[t].run = transfers[u].run)
         => transfers[t].index < transfers[u].index

\* a run of two recipients resolved with both transactions sent
C27_Witness ==
  \E r \in Runs :
    /\ pc[r] = "resolved"
    /\ NumRecipients(r) = 2
    /\ Len(result[r].transactionHashes) = 2
    /\ result[r].failedTransactions = <<>>

\* C28 as claimed: a run whose outer catch holds a persistence error rejects
\* with that same error, whether its recovery update succeeds or fails.
C28_RejectsWithCaughtError ==
  [][\A r \in Runs :
       (pc[r] = "recovering" /\ pc'[r] = "rejected") => error'[r] = error[r]]_vars

\* C29 as claimed: an import appends the accepted rows in file order after the
\* entries the list holds and reports as its count the number of entries the
\* list grew by; when no line is accepted the list stays as it is and the
\* toast is the one for a file without valid rows.
C29_ImportAppendsAndCounts ==
  [][readerOnload =>
       LET newRecipients == newRecipientsOf(csvLines(upload.text))
           toast == csvToast(newRecipients) IN
         IF newRecipients # <<>>
           THEN /\ recipients' = recipients \o newRecipients
                /\ toast.title = "CSV Uploaded"
                /\ toast.count = Len(recipients') - Len(recipients)
           ELSE /\ recipients' = recipients
                /\ toast.title = "Invalid CSV"]_vars

\* C30: removeRecipient with an index inside the list removes the entry at that
\* index and keeps the others in their order; with an index outside the list
\* it leaves the list as it is; clearAll leaves the list empty; an addRecipient
\* that changes the list appends its entry behind the entries already there.
C30_ListOperations ==
  [][/\ \A index \in 0..MaxRecipients :
          removeRecipient(index) =>
            IF index < Len(recipients)
              THEN /\ Len(recipients') = Len(recipients) - 1
                   /\ \A k \in 1..Len(recipients') :
                        recipients'[k] = recipients[IF k <= index THEN k ELSE k + 1]
              ELSE recipients' = recipients
     /\ clearAll => recipients' = <<>>
     /\ \A a \in BookAddressInputs, m \in BookAmountInputs :
          (addRecipient(a, m) /\ recipients' # recipients)
            => recipients' = Append(recipients, [address |-> a, amount |-> m])]_vars

\* the last row of the three-line file is all that is left of the list: the
\* entries the import put in front of it were removed by index and it stayed
C30_Witness ==
  /\ recipients = <<[address |-> AddrB, amount |-> <<"-", "3">>]>>
  /\ upload = NoRecord

\* the record has a token address: neither null nor the empty string
HasTokenAddress(rec) == rec.tokenAddress \notin {"null", ""}

\* C31: the record that a batch run created has a token address exactly when
\* its token type is erc20, and the record of a native batch has the token
\* address null, as the create route returned it and as the store holds it.
C31_TokenAddressIffErc20 ==
  \A r \in Runs :
    HasRecord(r) =>
      \A rec \in {multisendRecord[r], storedRecord(r)} :
        /\ HasTokenAddress(rec) <=> rec.tokenType = "erc20"
        /\ rec.tokenType = "native" => rec.tokenAddress = "null"

\* the first run stored a native batch, then the token type was changed and a
\* token selected, and the second run stored a batch of that token
C31_Witness ==
  /\ HasRecord(1) /\ HasRecord(2)
  /\ storedRecord(1).tokenType = "native"
  /\ storedRecord(1).tokenAddress = "null"
  /\ storedRecord(2).tokenType = "erc20"
  /\ storedRecord(2).tokenAddress \in TokenAddresses

\* fields of a record that are set at submission
SubmissionFields == {"totalAmount", "recipients", "senderAddress", "tokenType",
                     "tokenAddress"}

\* sum of the amounts of the list, in thousandths
RECURSIVE AmountSum(_)
AmountSum(list) ==
  IF list = <<>> THEN 0 ELSE parseFloat(Head(list).amount).milli + AmountSum(Tail(list))

\* C32: the stored record of a run keeps totalAmount, recipients, senderAddress,
\* tokenType and tokenAddress as they were submitted, totalAmount being the sum
\* of the amounts of all submitted recipients whatever failed; no step, the
\* final and the recovery update included, changes these fields of a record.
C32_SubmissionFieldsFixed ==
  /\ [](\A r \in Runs :
          HasRecord(r) =>
            /\ \A key \in SubmissionFields : storedRecord(r)[key] = multisendData[r][key]
            /\ storedRecord(r).totalAmount = Num(AmountSum(multisendData[r].recipients)))
  /\ [][\A id \in DOMAIN multisendTransactions :
          \A key \in SubmissionFields :
            multisendTransactions'[id][key] = multisendTransactions[id][key]]_vars

\* a run of two recipients with amount 1 each resolved with one failure, and
\* its record holds the total 2
C32_Witness ==
  \E r \in Runs :
    /\ pc[r] = "resolved"
    /\ NumRecipients(r) = 2
    /\ storedRecord(r).status = "partially_failed"
    /\ storedRecord(r).totalAmount = Num(2000)

\* positions inside the loop over the recipients
LoopPcs == {"submitting", "delay"}

\* C33 as claimed: no two activations of Send are inside their loops at the same
\* time, so the submissions of two runs never interleave.
C33_OneRunAtATime ==
  \A r, q \in Runs : (pc[r] \in LoopPcs /\ pc[q] \in LoopPcs) => r = q

\* C34 as claimed: when the read of a CSV file completes, the list is the list
\* of that moment followed by the accepted rows, so that entries added or
\* removed since the file was chosen are kept added or removed.
C34_ImportOntoCurrentList ==
  [][readerOnload =>
       /\ Len(recipients') = Len(recipients)
                               + Len(newRecipientsOf(csvLines(upload.text)))
       /\ SubSeq(recipients', 1, Len(recipients)) = recipients]_vars

\* C35 as claimed: every transfer of a run is sent from the account that the
\* record of the run names as its sender.
C35_SentFromRecordedSender ==
  \A t \in 1..Len(transfers) :
    transfers[t].from = multisendRecord[transfers[t].run].senderAddress

\* the recipient list of the form when Send was clicked for the run
Captured(r) == closure[r].recipients

\* C36: a run works on the list captured when Send was clicked, whatever is
\* done to the list of the form meanwhile: its data holds that list and never
\* changes, its submitter calls are issued for the indices of that list, each
\* transfer goes to the address and carries the amount of the captured entry
\* at its index, and the status of the final update is classified with the
\* length of that list.
C36_RunsOnCapturedList ==
  /\ [](\A r \in Runs :
          multisendData[r] # NoRecord =>
            /\ multisendData[r].recipients = Captured(r)
            /\ \A n \in 1..Len(issued[r]) : issued[r][n] = n - 1 /\ n <= Len(Captured(r))
            /\ PastLoop(r) => Len(issued[r]) = Len(Captured(r))
            /\ (pc[r] = "updating" /\ Len(puts[r]) = 1) =>
                 puts[r][1].status = finalStatus(failedTransactions[r], Captured(r)))
  /\ [](\A t \in 1..Len(transfers) :
          /\ transfers[t].to = Captured(transfers[t].run)[transfers[t].index + 1].address
          /\ transfers[t].value = Captured(transfers[t].run)[transfers[t].index + 1].amount)
  /\ [][\A r \in Runs :
          multisendData[r] # NoRecord => multisendData'[r] = multisendData[r]]_vars

\* a run of one recipient has left its loop with one submission while the form
\* holds more recipients, a row imported from a CSV file among them
C36_Witness ==
  \E r \in Runs :
    /\ pc[r] = "updating"
    /\ Len(Captured(r)) = 1
    /\ Len(issued[r]) = 1
    /\ Len(recipients) > 1
    /\ \E k \in 1..Len(recipients) : recipients[k].amount = <<"-", "3">>

\* C37 as claimed: every record of the store has as its id the key under which
\* the store holds it, and no two records have the same id.
C37_IdIsKey ==
  /\ \A k \in DOMAIN multisendTransactions : multisendTransactions[k].id = k
  /\ \A j, k \in DOMAIN multisendTransactions :
       multisendTransactions[j].id = multisendTransactions[k].id => j = k

\* C38 as claimed: in the step in which a run resolves, the outcome it returns
\* has the id, the status, the transaction hashes and the failed addresses of
\* the record that the store then holds under the id of the run's record.
C38_OutcomeEqualsStored ==
  [][\A r \in Runs :
       (pc[r] # "resolved" /\ pc'[r] = "resolved") =>
         LET stored == multisendTransactions'[multisendRecord[r].id] IN
           /\ result'[r].id = stored.id
           /\ result'[r].status = stored.status
           /\ result'[r].transactionHashes = stored.transactionHashes
           /\ result'[r].failedTransactions = stored.failedAddresses]_vars

\* C39 as claimed: the record that a completed deployment flow leaves in the
\* store has status deployed and the contract address and transaction hash
\* that were submitted, and a deployed ERC-20 contract is among the contracts
\* the multisender offers as tokens.
C39_DeploymentStored ==
  [][\A contractType \in ContractTypes, address \in TokenAddresses :
       deploy(contractType, address) =>
         LET id == nextDeploymentId IN
           /\ id \in DOMAIN deployments'
           /\ deployments'[id].status = "deployed"
           /\ deployments'[id].contractAddress = address
           /\ deployments'[id].transactionHash = deployResultOf(address).transactionHash
           /\ contractType = "erc20" => id \in erc20Contracts']_vars

====
